---- MODULE Spec2Model ----
(***************************************************************************)
(* gitready: the commit graph of the renderer.                             *)
(*                                                                         *)
(* The commits store (stores/commits.store.ts) holds the loaded window of  *)
(* the repository's log; CommitGraph (components/graph/CommitGraph.tsx)    *)
(* lays the window out in columns inside a useMemo callback, and           *)
(* BranchLine (components/graph/BranchLine.tsx) draws, for each node, the  *)
(* lines to its parents.                                                   *)
(*                                                                         *)
(* Strings are sequences of one-character strings, so that                 *)
(* String.prototype.includes is computed and not assumed.  Commit hashes   *)
(* are written with digits and ref / branch names with letters: a ref is   *)
(* never equal to a commit hash.                                           *)
(***************************************************************************)
EXTENDS Integers, Sequences, FiniteSets, Bags, TLC

\* ------------------------------------------------------------------ bounds
\* Number of commits in the repository's log.
MaxLog == 3
\* Longest parents list of a commit (2 = an ordinary merge).
MaxParents == 2
\* APP_CONFIG.MAX_COMMITS_PER_LOAD is 100 in shared/constants.ts; the page
\* size is scaled down so that windows of every length are loaded.
MAX_COMMITS_PER_LOAD == 1

\* The number of branch tips of the repository the legend is checked on.
MaxTips == 11
\* Most requests of the commits store in flight at once.
MaxTime == 2000
\* The clock advances by this many milliseconds at a time.
TickMs == 250
MaxPending == 2

\* --------------------------------------------------------------- constants
\* shared/constants.ts, GRAPH_CONFIG
NODE_SPACING_X == 24
COMMIT_HEIGHT == 48
SIDEBAR_WIDTH == 40
DEBOUNCE_FILE_WATCH == 500

\* shared/constants.ts, BRANCH_COLORS
BRANCH_COLORS ==
  << "#00d9ff", "#ff006e", "#00ff88", "#ff8c00", "#a855f7",
     "#fbbf24", "#06b6d4", "#f43f5e", "#84cc16", "#8b5cf6" >>

\* ----------------------------------------------------------------- strings
Digits == << "1", "2", "3", "4", "5", "6", "7", "8", "9", "a", "b", "c" >>

\* The hash of the k-th commit of the log.
Hash(k) == << "#", Digits[k] >>

\* Ref and branch names: "m" a local branch (main), "o/m" its remote-tracking
\* ref (origin/main), "t" a tag, or a branch, of that name.
RefMain == << "m" >>
RefOriginMain == << "o", "/", "m" >>
RefTopic == << "t" >>

\* String.prototype.includes(sub): sub occurs in s as a contiguous run.
Includes(s, sub) ==
  \E i \in 0..(Len(s) - Len(sub)) : SubSeq(s, i + 1, i + Len(sub)) = sub

\* ------------------------------------------------------------- environment
\* The refs lists a commit of the log may carry (GitCommit.refs).
RefChoices == { << >>, << RefMain >>, << RefTopic, RefOriginMain >> }

\* The parents lists of the k-th of n commits: the log is ordered children
\* before parents, so the parents are later commits; no hash is repeated.
ParentLists(k, n) ==
  LET later == { Hash(j) : j \in (k + 1)..n }
  IN  { ps \in UNION { [1..l -> later] : l \in 0..MaxParents } :
          \A a, b \in DOMAIN ps : a # b => ps[a] # ps[b] }

\* The logs `git log` may answer with, from the k-th of n commits on
\* (GitCommit: hash, parents, refs; the graph reads no other field).
RECURSIVE LogsFrom(_, _)
LogsFrom(k, n) ==
  IF k > n THEN { << >> }
  ELSE { << [hash |-> Hash(k), parents |-> ps, refs |-> rs] >> \o rest :
           ps \in ParentLists(k, n), rs \in RefChoices, rest \in LogsFrom(k + 1, n) }

\* `git log --all` lists the commits reachable from the refs: a commit that
\* is no parent of an earlier commit has a ref pointing at it.  A ref names
\* one commit, so %D prints it for that commit only.
Logs(n) ==
  { l \in LogsFrom(1, n) :
      /\ \A k \in 1..n :
           (\A j \in 1..(k - 1) : \A p \in DOMAIN l[j].parents : l[j].parents[p] # Hash(k))
             => l[k].refs # << >>
      /\ \A j, k \in 1..n :
           j # k => \A a \in DOMAIN l[j].refs : \A b \in DOMAIN l[k].refs :
                      l[j].refs[a] # l[k].refs[b] }

\* The branch lists `git branch` may answer with (GitBranch.name).
BranchLists == { << RefMain >>, << RefOriginMain, RefTopic >> }

\* getLog({maxCount, skip}): at most maxCount commits of the log after skip.
GetLog(l, maxCount, skip) ==
  SubSeq(l, skip + 1, IF skip + maxCount < Len(l) THEN skip + maxCount ELSE Len(l))

\* The branch `git branch` marks current: the first local branch of the
\* list, << >> when the list has none.
CheckedOut(brs) ==
  LET locals == { b \in 1..Len(brs) : ~ (Len(brs[b]) >= 2 /\ SubSeq(brs[b], 1, 2) = << "o", "/" >>) }
  IN  IF locals = {} THEN << >>
      ELSE brs[CHOOSE b \in locals : \A c \in locals : b <= c]

\* A repository of MaxTips branches that share no history: the k-th commit
\* of its log is the root commit the branch BranchName(k) points at.
BranchName(k) == << "b", Digits[k] >>

\* Its logs: HEAD is on the first branch or detached, and the d-th commit
\* (if d > 1) is where the remote-tracking branch of the first branch is.
TipLogs(n) ==
  { [k \in 1..n |->
       [hash |-> Hash(k), parents |-> << >>,
        refs |-> IF k = 1 /\ head THEN << << "H", ">" >> \o BranchName(1) >>
                 ELSE IF k = d THEN << << "o", "/" >> \o BranchName(1), BranchName(k) >>
                 ELSE << BranchName(k) >>]] :
      head \in BOOLEAN, d \in {0} \cup 2..n }

TipBranches(n) == [k \in 1..n |-> BranchName(k)]

VARIABLES
  log,          \* the repository: what git log answers
  repoBranches, \* the repository: what git branch answers
  commits,      \* commits store: commits
  isLoading,    \* commits store: isLoading
  hasMore,      \* commits store: hasMore
  error,        \* commits store: error ("null" or a message)
  branches,     \* branches store: branches (their names)
  repoCurrent,  \* the repository: the name of the checked-out branch, << >> for none
  currentBranch,\* branches store: currentBranch, << >> for null
  legend,       \* CommitGraph: the legend entries rendered with the graph
  selectedCommit,\* commits store: selectedCommit (its hash), << >> for null
  pending,      \* the getLog / searchCommits requests awaited, a bag
  lastCall,     \* how the latest loadMoreCommits() call went: issued or skipped
  shortPage,    \* history: a page shorter than the maximum has come back
                \* since the list was last fetched or reset
  searchShown,  \* history: a search has succeeded, and since then
                \* fetchCommits was neither called nor answered, nor reset
  debounceTimer,\* WatcherService: debounceTimer, the time its timeout is due,
                \* 0 for null
  timers,       \* the timeouts scheduled in the main process, neither run
                \* nor cleared: the times they are due
  closed,       \* WatcherService: close() was called, the listeners are gone
  now,          \* the clock of the main process, in milliseconds
  lastChange,   \* history: when the latest file-change event came, -1 for none
  burst,        \* history: the latest event came less than the debounce
                \* delay after the one before it
  callbacks,    \* history: how many times onChange was called since the
                \* latest event
  stale,        \* a store value CommitGraph reads has changed since its last render
  memo,         \* the [commits, branches] the useMemo value was computed from
  graphNodes,   \* CommitGraph: the useMemo value
  columnMap,    \* the layout run's columnMap, as the last run left it
  maxColumn,    \* the layout run's maxColumn, as the last run left it
  branchLines,  \* per node, the lines its BranchLine renders
  runs          \* history: the recorded layout runs, input and output

vars == << log, repoBranches, repoCurrent, commits, isLoading, hasMore, error,
           branches, currentBranch, stale, memo, graphNodes, columnMap,
           maxColumn, branchLines, legend, runs,
           selectedCommit, pending, lastCall, shortPage, searchShown,
           debounceTimer, timers, closed, now, lastChange, burst,
           callbacks >>

\* ------------------------------------------------------------ CommitGraph
EmptyMap == [k \in {} |-> 0]

MapSet(m, key, val) ==
  [k \in DOMAIN m \cup {key} |-> IF k = key THEN val ELSE m[k]]

\* const nodes = []; const columnMap = new Map(); let maxColumn = 0;
NewRunStale == [nodes |-> << >>, columnMap |-> columnMap, maxColumn |-> maxColumn]
NewRun == [nodes |-> << >>, columnMap |-> EmptyMap, maxColumn |-> 0]

\* commit.refs.find((ref) => branches.some((b) => b.name === ref ||
\* ref.includes(b.name))): the first matching ref, << >> for undefined.
IsBranchRef(ref, brs) ==
  \E b \in 1..Len(brs) : brs[b] = ref \/ Includes(ref, brs[b])

FindBranchRef(refs, brs) ==
  LET hits == { i \in 1..Len(refs) : IsBranchRef(refs[i], brs) }
  IN  IF hits = {} THEN << >>
      ELSE refs[CHOOSE i \in hits : \A j \in hits : i <= j]

\* x: GRAPH_CONFIG.SIDEBAR_WIDTH + column * GRAPH_CONFIG.NODE_SPACING_X + 20
ProjectXFixed(column) == SIDEBAR_WIDTH + NODE_SPACING_X + 20
ProjectX(column) == SIDEBAR_WIDTH + column * NODE_SPACING_X + 20

\* y: index * GRAPH_CONFIG.COMMIT_HEIGHT + 25
ProjectY(index) == index * COMMIT_HEIGHT + 25

\* let column = 0; if (branchRef) { the column of a ref seen before, else
\* maxColumn } else if (commit.parents.length > 0) { the column of the first
\* parent, if the map has it }.
ColumnForLatest(st, commit, branchRef) ==
  IF branchRef # << >> /\ branchRef \in DOMAIN st.columnMap
  THEN st.columnMap[branchRef]
  ELSE IF branchRef # << >> THEN st.maxColumn
  ELSE IF Len(commit.parents) > 0 /\ commit.parents[1] \in DOMAIN st.columnMap
       THEN st.columnMap[commit.parents[1]]
  ELSE IF st.maxColumn > 0 THEN st.maxColumn - 1 ELSE 0
ColumnForAlwaysNew(st, commit, branchRef) ==
  IF branchRef # << >> /\ branchRef \in DOMAIN st.columnMap
  THEN st.maxColumn
  ELSE IF branchRef # << >> THEN st.maxColumn
  ELSE IF Len(commit.parents) > 0 /\ commit.parents[1] \in DOMAIN st.columnMap
       THEN st.columnMap[commit.parents[1]]
  ELSE 0
ColumnFor(st, commit, branchRef) ==
  IF branchRef # << >> /\ branchRef \in DOMAIN st.columnMap
  THEN st.columnMap[branchRef]
  ELSE IF branchRef # << >> THEN st.maxColumn
  ELSE IF Len(commit.parents) > 0 /\ commit.parents[1] \in DOMAIN st.columnMap
       THEN st.columnMap[commit.parents[1]]
  ELSE 0

\* BRANCH_COLORS[column % BRANCH_COLORS.length]
ColorOfClamped(column) ==
  BRANCH_COLORS[IF column < Len(BRANCH_COLORS) THEN column + 1 ELSE Len(BRANCH_COLORS)]
ColorOf(column) == BRANCH_COLORS[(column % Len(BRANCH_COLORS)) + 1]

\* The body of commits.forEach((commit, index) => ...); index counts from 0.
LayoutStep(st, commit, index, brs) ==
  LET branchRef == FindBranchRef(commit.refs, brs)
      fresh == branchRef # << >> /\ branchRef \notin DOMAIN st.columnMap
      column == ColumnFor(st, commit, branchRef)
      map1 == IF fresh THEN MapSet(st.columnMap, branchRef, column) ELSE st.columnMap
      node == [commit |-> commit,
               x |-> ProjectX(column),
               y |-> ProjectY(index),
               color |-> ColorOf(column),
               column |-> column]
  IN  [nodes |-> Append(st.nodes, node),
       columnMap |-> MapSet(map1, commit.hash, column),
       maxColumn |-> IF fresh THEN st.maxColumn + 1 ELSE st.maxColumn]

\* commits.forEach, from the i-th commit on, last commit first.
RECURSIVE ForEachReversed(_, _, _, _)
ForEachReversed(st, cs, i, brs) ==
  IF i > Len(cs) THEN st
  ELSE LET rest == ForEachReversed(st, cs, i + 1, brs)
           done == LayoutStep([rest EXCEPT !.nodes = << >>], cs[i], i - 1, brs)
       IN  [done EXCEPT !.nodes = done.nodes \o rest.nodes]

\* commits.forEach, from the i-th commit on, in list order.
RECURSIVE ForEach(_, _, _, _)
ForEach(st, cs, i, brs) ==
  IF i > Len(cs) THEN st
  ELSE ForEach(LayoutStep(st, cs[i], i - 1, brs), cs, i + 1, brs)

\* The useMemo callback: one layout run over the store's commits.
LayoutRun(cs, brs) == ForEach(NewRun, cs, 1, brs)

\* ------------------------------------------------------------- BranchLine
\* allNodes.find((n) => n.commit.hash === parentHash): the index of the
\* first node with that hash, 0 for undefined.
FindNode(allNodes, parentHash) ==
  LET hits == { j \in 1..Len(allNodes) : allNodes[j].commit.hash = parentHash }
  IN  IF hits = {} THEN 0 ELSE CHOOSE j \in hits : \A k \in hits : j <= k

\* commit.parents.map(find).filter((n) => n !== undefined), as node indices.
ParentNodes(node, allNodes) ==
  LET found == [k \in 1..Len(node.commit.parents) |->
                  FindNode(allNodes, node.commit.parents[k])]
      Defined(j) == j # 0
  IN  SelectSeq(found, Defined)

\* if (parentNodes.length === 0 && commit.parents.length > 0) with
\* if (node === lastNode): the dashed line of a window that ends here.
DrawsTruncatedAnyParents(i, allNodes) ==
  /\ Len(ParentNodes(allNodes[i], allNodes)) = 0
  /\ i = Len(allNodes)
DrawsTruncatedAnyNode(i, allNodes) ==
  /\ Len(ParentNodes(allNodes[i], allNodes)) = 0
  /\ Len(allNodes[i].commit.parents) > 0
DrawsTruncated(i, allNodes) ==
  /\ Len(ParentNodes(allNodes[i], allNodes)) = 0
  /\ Len(allNodes[i].commit.parents) > 0
  /\ i = Len(allNodes)

\* const isFork = parentNode.column > column;
IsForkFlipped(parentColumn, column) == parentColumn < column
IsFork(parentColumn, column) == parentColumn > column

\* The element parentNodes.map((parentNode, index) => ...) returns for the
\* index-th found parent (index counts from 0): a straight <line> for a
\* parent in the same column, a curved <path> otherwise.  Opacity in percent.
ParentLine(node, parentNode, index) ==
  LET isSameColumn == parentNode.column = node.column
      isFirstParent == index = 0
      lineColor == IF isFirstParent THEN node.color ELSE parentNode.color
  IN  IF isSameColumn
      THEN [kind |-> "straight", from |-> node.commit.hash,
            to |-> parentNode.commit.hash, stroke |-> lineColor,
            opacity |-> 100, dashed |-> FALSE]
      ELSE [kind |-> IF IsFork(parentNode.column, node.column) THEN "fork" ELSE "merge",
            from |-> node.commit.hash, to |-> parentNode.commit.hash,
            stroke |-> lineColor,
            opacity |-> IF isFirstParent THEN 100 ELSE 70, dashed |-> FALSE]

\* What BranchLine renders for the i-th node (node === allNodes[i]).
BranchLine(i, allNodes) ==
  LET node == allNodes[i]
      parentNodes == ParentNodes(node, allNodes)
      stub(kind, opacity) ==
        [kind |-> kind, from |-> node.commit.hash, to |-> << >>,
         stroke |-> node.color, opacity |-> opacity, dashed |-> TRUE]
  IN  IF DrawsTruncated(i, allNodes)
      THEN << stub("truncated", 50) >>
      ELSE [k \in 1..Len(parentNodes) |->
              ParentLine(node, allNodes[parentNodes[k]], k - 1)]
           \o (IF i = 1 THEN << stub("top", 30) >> ELSE << >>)

\* ----------------------------------------------------------------- legend
\* The legend the graph is rendered with: its derivation is not among the
\* sources at hand and is written from the design document, section 4.3.
LegendCap == 8

HeadPrefix == << "H", ">" >>
RemotePrefix == << "o", "/" >>

HasPrefix(s, pre) == Len(s) >= Len(pre) /\ SubSeq(s, 1, Len(pre)) = pre

\* The bare name of a ref: the symbolic-HEAD marker and the remote-tracking
\* marker are stripped.
BareName(ref) ==
  LET noHead == IF HasPrefix(ref, HeadPrefix)
                THEN SubSeq(ref, Len(HeadPrefix) + 1, Len(ref)) ELSE ref
  IN  IF HasPrefix(noHead, RemotePrefix)
      THEN SubSeq(noHead, Len(RemotePrefix) + 1, Len(noHead)) ELSE noHead

\* The label of a node: the bare name of its commit's first ref, << >> for
\* a commit without refs.
BranchLabel(node) ==
  IF node.commit.refs = << >> THEN << >> ELSE BareName(node.commit.refs[1])

LabelsOf(entries) == { entries[k].label : k \in DOMAIN entries }

\* The walk over the nodes in row order, from the i-th node on: one entry
\* the first time a label is seen, until LegendCap entries are collected.
RECURSIVE CollectLegendNoCap(_, _, _)
CollectLegendNoCap(nodes, i, acc) ==
  IF i > Len(nodes) THEN acc
  ELSE LET label == BranchLabel(nodes[i])
       IN  IF label = << >> \/ label \in LabelsOf(acc)
           THEN CollectLegendNoCap(nodes, i + 1, acc)
           ELSE CollectLegendNoCap(nodes, i + 1,
                  Append(acc, [label |-> label, color |-> nodes[i].color]))

RECURSIVE CollectLegend(_, _, _)
CollectLegend(nodes, i, acc) ==
  IF i > Len(nodes) \/ Len(acc) >= LegendCap THEN acc
  ELSE LET label == BranchLabel(nodes[i])
       IN  IF label = << >> \/ label \in LabelsOf(acc)
           THEN CollectLegend(nodes, i + 1, acc)
           ELSE CollectLegend(nodes, i + 1,
                  Append(acc, [label |-> label, color |-> nodes[i].color]))

\* deriveLegend(nodes, currentBranchName): the collected entries, with the
\* checked-out branch put in front when it is not among them.
DeriveLegendNoInsert(nodes, current) == CollectLegend(nodes, 1, << >>)
DeriveLegend(nodes, current) ==
  LET collected == CollectLegend(nodes, 1, << >>)
  IN  IF current # << >> /\ current \notin LabelsOf(collected)
      THEN << [label |-> current, color |-> BRANCH_COLORS[1]] >> \o collected
      ELSE collected

\* ------------------------------------------------------------------ state
Run(cs, brs, nodes, lines) ==
  [commits |-> cs, branches |-> brs, nodes |-> nodes, lines |-> lines]

\* The state of the stores and of the graph before anything is fetched.
Fresh ==
  /\ commits = << >>
  /\ isLoading = FALSE
  /\ hasMore = TRUE
  /\ error = "null"
  /\ branches = << >>
  /\ currentBranch = << >>
  /\ stale = FALSE
  /\ memo = [commits |-> << >>, branches |-> << >>]
  /\ graphNodes = << >>
  /\ columnMap = EmptyMap
  /\ maxColumn = 0
  /\ branchLines = << >>
  /\ legend = << >>
  /\ runs = { Run(<< >>, << >>, << >>, << >>) }
  /\ selectedCommit = << >>
  /\ pending = EmptyBag
  /\ lastCall = "none"
  /\ shortPage = FALSE
  /\ searchShown = FALSE
  /\ debounceTimer = 0
  /\ timers = {}
  /\ closed = FALSE
  /\ now = 0
  /\ lastChange = -1
  /\ burst = FALSE
  /\ callbacks = 0

Init ==
  /\ log \in Logs(MaxLog)
  /\ repoBranches \in BranchLists
  /\ repoCurrent = CheckedOut(repoBranches)
  /\ Fresh

graphVars == << memo, graphNodes, columnMap, maxColumn, branchLines, legend, runs >>

repoVars == << log, repoBranches, repoCurrent >>

branchVars == << branches, currentBranch >>

\* What a handler that runs from its first set() to its last leaves alone.
asyncVars == << selectedCommit, pending, lastCall, shortPage, searchShown >>

\* The watcher of the main process, which no handler of the renderer touches.
watcherVars == << debounceTimer, timers, closed, now, lastChange, burst,
                 callbacks >>

\* ---------------------------------------------------------------- actions
\* fetchCommits(), run from its first set() to its last with no other
\* handler in between: getLog answers with the first page, or fails.
FetchCommits ==
  /\ ~stale
  /\ \E ok \in BOOLEAN :
       LET data == GetLog(log, MAX_COMMITS_PER_LOAD, 0)
       IN  IF ok
           THEN /\ commits' = data
                /\ hasMore' = (Len(data) >= MAX_COMMITS_PER_LOAD)
                /\ error' = "null"
                /\ stale' = TRUE
           ELSE /\ error' = "failed"
                /\ UNCHANGED << commits, hasMore, stale >>
  /\ isLoading' = FALSE
  /\ UNCHANGED << log, repoBranches, repoCurrent, branches, currentBranch, graphVars >>
  /\ UNCHANGED << asyncVars, watcherVars >>

\* loadMoreCommits(), run likewise: the guard, then the next page appended.
LoadMoreCommits ==
  /\ ~stale
  /\ hasMore /\ ~isLoading
  /\ \E ok \in BOOLEAN :
       LET data == GetLog(log, MAX_COMMITS_PER_LOAD, Len(commits))
       IN  IF ok
           THEN /\ commits' = commits \o data
                /\ hasMore' = (Len(data) >= MAX_COMMITS_PER_LOAD)
                /\ stale' = TRUE
                /\ UNCHANGED error
           ELSE /\ error' = "failed"
                /\ UNCHANGED << commits, hasMore, stale >>
  /\ isLoading' = FALSE
  /\ UNCHANGED << log, repoBranches, repoCurrent, branches, currentBranch, graphVars >>
  /\ UNCHANGED << asyncVars, watcherVars >>

\* fetchBranches(), success: the branches store takes the repository's list.
FetchBranches ==
  /\ ~stale
  /\ branches' = repoBranches
  /\ currentBranch' = repoCurrent
  /\ stale' = TRUE
  /\ UNCHANGED << log, repoBranches, repoCurrent, commits, isLoading, hasMore,
                  error, graphVars >>
  /\ UNCHANGED << asyncVars, watcherVars >>

\* CommitGraph renders: useMemo recomputes graphNodes because commits or
\* branches is a new array, and every node's BranchLine is rendered.  With
\* record, the run's input and output also enter the history.
RenderWithReversing(record) ==
  /\ stale
  /\ LET run == LayoutRun(commits, branches)
         lines == [i \in 1..Len(run.nodes) |-> BranchLine(i, run.nodes)]
     IN  /\ graphNodes' = run.nodes
         /\ columnMap' = run.columnMap
         /\ maxColumn' = run.maxColumn
         /\ branchLines' = lines
         /\ legend' = DeriveLegend(run.nodes, currentBranch)
         /\ runs' = IF record
                    THEN runs \cup { Run(commits, branches, run.nodes, lines) }
                    ELSE runs
  /\ memo' = [commits |-> commits, branches |-> branches]
  /\ stale' = FALSE
  /\ commits' = [k \in 1..Len(commits) |-> commits[Len(commits) + 1 - k]]
  /\ UNCHANGED << log, repoBranches, repoCurrent, isLoading, hasMore,
                  error, branches, currentBranch >>
  /\ UNCHANGED << asyncVars, watcherVars >>
RenderWith(record) ==
  /\ stale
  /\ LET run == LayoutRun(commits, branches)
         lines == [i \in 1..Len(run.nodes) |-> BranchLine(i, run.nodes)]
     IN  /\ graphNodes' = run.nodes
         /\ columnMap' = run.columnMap
         /\ maxColumn' = run.maxColumn
         /\ branchLines' = lines
         /\ legend' = DeriveLegend(run.nodes, currentBranch)
         /\ runs' = IF record
                    THEN runs \cup { Run(commits, branches, run.nodes, lines) }
                    ELSE runs
  /\ memo' = [commits |-> commits, branches |-> branches]
  /\ stale' = FALSE
  /\ UNCHANGED << log, repoBranches, repoCurrent, commits, isLoading, hasMore,
                  error, branches, currentBranch >>
  /\ UNCHANGED << asyncVars, watcherVars >>

Render == RenderWith(FALSE)

RenderRecorded == RenderWith(TRUE)

Next ==
  \/ FetchCommits
  \/ LoadMoreCommits
  \/ FetchBranches
  \/ Render

Spec == Init /\ [][Next]_vars

\* The same program with the history of its layout runs kept, for the
\* properties that compare two runs that need not follow one another.
NextRecorded ==
  \/ FetchCommits
  \/ LoadMoreCommits
  \/ FetchBranches
  \/ RenderRecorded

SpecRuns == Init /\ [][NextRecorded]_vars

\* The repository changes under the program: a branch is created at the
\* newest commit and a commit is made on it, which `git log` lists first.
RefNew == << "n" >>

NewCommit ==
  /\ Len(log) < MaxLog
  /\ log' = << [hash |-> Hash(Len(log) + 1),
                parents |-> << log[1].hash >>,
                refs |-> << RefNew >>] >> \o log
  /\ repoBranches' = Append(repoBranches, RefNew)
  /\ repoCurrent' = RefNew
  /\ UNCHANGED << commits, isLoading, hasMore, error, stale, branchVars,
                  graphVars, asyncVars, watcherVars >>

NextChanging ==
  \/ Next
  \/ NewCommit

\* The repository one commit short of MaxLog, which the new commit fills.
InitChanging ==
  /\ log \in Logs(MaxLog - 1)
  /\ repoBranches \in BranchLists
  /\ repoCurrent = CheckedOut(repoBranches)
  /\ Fresh

SpecChanging == InitChanging /\ [][NextChanging]_vars

\* The program on the repository of MaxTips unrelated branches, with any of
\* them, a branch outside the log, or none checked out.
InitTips ==
  /\ log \in TipLogs(MaxTips)
  /\ repoBranches = TipBranches(MaxTips)
  /\ repoCurrent \in { << >>, RefMain } \cup { BranchName(k) : k \in 1..MaxTips }
  /\ Fresh

SpecTips == InitTips /\ [][Next]_vars

\* ------------------------------------------- the commits store, handler
\* by handler: a handler runs to its await, the answer of the main process
\* comes back later, and other handlers run in between.
\* A request awaited: the options the main process was called with, the
\* commits the handler read before its await (loadMoreCommits), and the
\* commits that match the query (searchCommits).
Request(op, cs, maxCount, skip, data) ==
  [op |-> op, commits |-> cs, maxCount |-> maxCount, skip |-> skip, data |-> data]

Send(req) == pending (+) SetToBag({ req })

Receive(req) == pending (-) SetToBag({ req })

Awaited(op) == { req \in BagToSet(pending) : req.op = op }

CanSend == BagCardinality(pending) < MaxPending

\* git log with --grep / --author / a revision: the commits of the log that
\* match the query, at most maxCount of them, in log order.
SearchResults(l, maxCount) ==
  { LET Keep(c) == \E k \in S : c.hash = Hash(k)
        found == SelectSeq(l, Keep)
    IN  SubSeq(found, 1, IF maxCount < Len(found) THEN maxCount ELSE Len(found)) :
      S \in SUBSET (1..Len(l)) }

\* fetchCommits() up to its await: set({ isLoading: true, error: null }) and
\* getLog({ maxCount: MAX_COMMITS_PER_LOAD }).
FetchStart ==
  /\ CanSend
  /\ isLoading' = TRUE
  /\ error' = "null"
  /\ pending' = Send(Request("fetch", << >>, MAX_COMMITS_PER_LOAD, 0, << >>))
  /\ searchShown' = FALSE
  /\ UNCHANGED << commits, hasMore, stale, selectedCommit, lastCall, shortPage >>
  /\ UNCHANGED << repoVars, branchVars, graphVars, watcherVars >>

\* fetchCommits() after its await, response.success.
FetchSucceeds ==
  \E req \in Awaited("fetch") :
    LET data == GetLog(log, req.maxCount, req.skip)
    IN  /\ pending' = Receive(req)
        /\ commits' = data
        /\ hasMore' = (Len(data) >= MAX_COMMITS_PER_LOAD)
        /\ isLoading' = FALSE
        /\ shortPage' = (Len(data) < MAX_COMMITS_PER_LOAD)
        /\ searchShown' = FALSE
        /\ stale' = TRUE
        /\ UNCHANGED << error, selectedCommit, lastCall >>
        /\ UNCHANGED << repoVars, branchVars, graphVars, watcherVars >>

\* fetchCommits() after its await, success false or an exception:
\* set({ error: ..., isLoading: false }).
FetchFailsClearing ==
  \E req \in Awaited("fetch") :
    /\ pending' = Receive(req)
    /\ error' = "failed"
    /\ isLoading' = FALSE
    /\ commits' = << >>
    /\ UNCHANGED << hasMore, stale, selectedCommit, lastCall, shortPage,
                  searchShown >>
    /\ UNCHANGED << repoVars, branchVars, graphVars, watcherVars >>
FetchFails ==
  \E req \in Awaited("fetch") :
    /\ pending' = Receive(req)
    /\ error' = "failed"
    /\ isLoading' = FALSE
    /\ UNCHANGED << commits, hasMore, stale, selectedCommit, lastCall, shortPage,
                  searchShown >>
    /\ UNCHANGED << repoVars, branchVars, graphVars, watcherVars >>

FetchDone == FetchSucceeds \/ FetchFails

\* if (!hasMore || isLoading) return;
LoadMoreGuardNoLoading(more, loading) == ~more
LoadMoreGuard(more, loading) == ~more \/ loading

\* loadMoreCommits() up to its await: the guard, set({ isLoading: true })
\* and getLog({ maxCount: MAX_COMMITS_PER_LOAD, skip: commits.length }).
LoadMoreCall ==
  IF LoadMoreGuard(hasMore, isLoading)
  THEN /\ lastCall' = "skipped"
       /\ UNCHANGED << commits, isLoading, hasMore, error, stale, selectedCommit,
                       pending, shortPage, searchShown >>
       /\ UNCHANGED << repoVars, branchVars, graphVars, watcherVars >>
  ELSE /\ CanSend
       /\ lastCall' = "issued"
       /\ isLoading' = TRUE
       /\ pending' = Send(Request("more", commits, MAX_COMMITS_PER_LOAD,
                                  Len(commits), << >>))
       /\ UNCHANGED << commits, hasMore, error, stale, selectedCommit, shortPage,
                       searchShown >>
       /\ UNCHANGED << repoVars, branchVars, graphVars, watcherVars >>

\* loadMoreCommits() after its await, response.success:
\* commits: [...commits, ...response.data], with the commits read at the start.
LoadMoreSucceeds ==
  \E req \in Awaited("more") :
    LET data == GetLog(log, req.maxCount, req.skip)
    IN  /\ pending' = Receive(req)
        /\ commits' = req.commits \o data
        /\ hasMore' = (Len(data) >= MAX_COMMITS_PER_LOAD)
        /\ isLoading' = FALSE
        /\ shortPage' = (shortPage \/ Len(data) < MAX_COMMITS_PER_LOAD)
        /\ stale' = TRUE
        /\ UNCHANGED << error, selectedCommit, lastCall, searchShown >>
        /\ UNCHANGED << repoVars, branchVars, graphVars, watcherVars >>

\* loadMoreCommits() after its await, success false or an exception.
LoadMoreFails ==
  \E req \in Awaited("more") :
    /\ pending' = Receive(req)
    /\ error' = "failed"
    /\ isLoading' = FALSE
    /\ UNCHANGED << commits, hasMore, stale, selectedCommit, lastCall, shortPage,
                  searchShown >>
    /\ UNCHANGED << repoVars, branchVars, graphVars, watcherVars >>

LoadMoreDone == LoadMoreSucceeds \/ LoadMoreFails

\* searchCommits(query, searchIn) up to its await.
SearchStart ==
  /\ CanSend
  /\ isLoading' = TRUE
  /\ error' = "null"
  /\ \E found \in SearchResults(log, MAX_COMMITS_PER_LOAD) :
       pending' = Send(Request("search", << >>, MAX_COMMITS_PER_LOAD, 0, found))
  /\ UNCHANGED << commits, hasMore, stale, selectedCommit, lastCall, shortPage,
                  searchShown >>
  /\ UNCHANGED << repoVars, branchVars, graphVars, watcherVars >>

\* searchCommits() after its await, response.success: the matches replace
\* the list and hasMore is false.
SearchSucceeds ==
  \E req \in Awaited("search") :
    /\ pending' = Receive(req)
    /\ commits' = req.data
    /\ hasMore' = FALSE
    /\ isLoading' = FALSE
    /\ searchShown' = TRUE
    /\ stale' = TRUE
    /\ UNCHANGED << error, selectedCommit, lastCall, shortPage >>
    /\ UNCHANGED << repoVars, branchVars, graphVars, watcherVars >>

\* searchCommits() after its await, success false or an exception.
SearchFails ==
  \E req \in Awaited("search") :
    /\ pending' = Receive(req)
    /\ error' = "failed"
    /\ isLoading' = FALSE
    /\ UNCHANGED << commits, hasMore, stale, selectedCommit, lastCall, shortPage,
                    searchShown >>
    /\ UNCHANGED << repoVars, branchVars, graphVars, watcherVars >>

SearchDone == SearchSucceeds \/ SearchFails

\* selectCommit(commit), from a click on a node of the graph, or null.
SelectCommit ==
  /\ \E h \in { << >> } \cup { commits[k].hash : k \in DOMAIN commits } :
       selectedCommit' = h
  /\ UNCHANGED << commits, isLoading, hasMore, error, stale, pending, lastCall,
                  shortPage, searchShown >>
  /\ UNCHANGED << repoVars, branchVars, graphVars, watcherVars >>

\* reset(): the store back to its initial values; what is awaited stays so.
Reset ==
  /\ commits' = << >>
  /\ selectedCommit' = << >>
  /\ isLoading' = FALSE
  /\ hasMore' = TRUE
  /\ error' = "null"
  /\ shortPage' = FALSE
  /\ searchShown' = FALSE
  /\ stale' = (stale \/ commits # << >>)
  /\ UNCHANGED << pending, lastCall >>
  /\ UNCHANGED << repoVars, branchVars, graphVars, watcherVars >>

\* A repository with one branch and a history of n commits in a line.
LinearLog(n) ==
  [k \in 1..n |->
     [hash |-> Hash(k),
      parents |-> IF k < n THEN << Hash(k + 1) >> ELSE << >>,
      refs |-> IF k = 1 THEN << RefMain >> ELSE << >>]]

InitStore ==
  /\ log \in { LinearLog(n) : n \in 1..MaxLog }
  /\ repoBranches = << RefMain >>
  /\ repoCurrent = RefMain
  /\ Fresh

NextStore ==
  \/ FetchStart
  \/ FetchDone
  \/ LoadMoreCall
  \/ LoadMoreDone
  \/ SearchStart
  \/ SearchDone
  \/ SelectCommit
  \/ Reset

SpecStore == InitStore /\ [][NextStore]_vars

\* --------------------------------------------------------- WatcherService
\* clearTimeout(timer): the timeout is no longer scheduled; a timeout that
\* has run, or null, clears nothing.
ClearTimeout(timer) == timers \ { timer }

\* handleChange(), the listener of add, change, unlink, addDir and unlinkDir:
\* the timeout scheduled before is cleared and a new one is scheduled.
\* watcher.close() removes the listeners, so no event comes after it.
HandleChangeKeepingTimer ==
  /\ ~closed
  /\ now <= MaxTime
  /\ debounceTimer' = now + DEBOUNCE_FILE_WATCH
  /\ timers' = timers \cup { now + DEBOUNCE_FILE_WATCH }
  /\ burst' = (lastChange >= 0 /\ now - lastChange < DEBOUNCE_FILE_WATCH)
  /\ lastChange' = now
  /\ callbacks' = 0
  /\ UNCHANGED << closed, now >>
  /\ UNCHANGED << repoVars, commits, isLoading, hasMore, error, stale,
                  branchVars, graphVars, asyncVars >>
HandleChange ==
  /\ ~closed
  /\ now <= MaxTime
  /\ debounceTimer' = now + DEBOUNCE_FILE_WATCH
  /\ timers' = ClearTimeout(debounceTimer) \cup { now + DEBOUNCE_FILE_WATCH }
  /\ burst' = (lastChange >= 0 /\ now - lastChange < DEBOUNCE_FILE_WATCH)
  /\ lastChange' = now
  /\ callbacks' = 0
  /\ UNCHANGED << closed, now >>
  /\ UNCHANGED << repoVars, commits, isLoading, hasMore, error, stale,
                  branchVars, graphVars, asyncVars >>

\* The timeout runs, at its time or later: () => { this.callback(); }
TimerFires ==
  /\ \E due \in timers :
       /\ now >= due
       /\ timers' = timers \ { due }
  /\ callbacks' = callbacks + 1
  /\ UNCHANGED << debounceTimer, closed, now, lastChange, burst >>
  /\ UNCHANGED << repoVars, commits, isLoading, hasMore, error, stale,
                  branchVars, graphVars, asyncVars >>

\* close(): the scheduled timeout is cleared and the chokidar watcher closed.
Close ==
  /\ ~closed
  /\ timers' = ClearTimeout(debounceTimer)
  /\ closed' = TRUE
  /\ UNCHANGED << debounceTimer, now, lastChange, burst, callbacks >>
  /\ UNCHANGED << repoVars, commits, isLoading, hasMore, error, stale,
                  branchVars, graphVars, asyncVars >>

\* Time passes: to MaxTime, and on to the time the last timeout is due.
Tick ==
  /\ now < MaxTime \/ \E due \in timers : now < due
  /\ now' = now + TickMs
  /\ UNCHANGED << debounceTimer, timers, closed, lastChange, burst, callbacks >>
  /\ UNCHANGED << repoVars, commits, isLoading, hasMore, error, stale,
                  branchVars, graphVars, asyncVars >>

\* The watcher of an opened repository, before any event.
InitWatcher ==
  /\ log = LinearLog(1)
  /\ repoBranches = << RefMain >>
  /\ repoCurrent = RefMain
  /\ Fresh

NextWatcher ==
  \/ HandleChange
  \/ TimerFires
  \/ Close
  \/ Tick

SpecWatcher == InitWatcher /\ [][NextWatcher]_vars

\* The same with the event loop of the main process doing its work: a
\* timeout that is due runs, and the clock goes on.
FairSpecWatcher == SpecWatcher /\ WF_vars(TimerFires) /\ WF_vars(Tick)

\* ----------------------------------------------------- reading the output
IsPrefix(a, b) == Len(a) <= Len(b) /\ SubSeq(b, 1, Len(a)) = a

Range(f) == { f[k] : k \in DOMAIN f }

Rows == 1..Len(graphNodes)

\* The row of the node of commit h in the rendered window, 0 when h is absent.
RowOf(h) ==
  IF \E j \in Rows : graphNodes[j].commit.hash = h
  THEN CHOOSE j \in Rows : graphNodes[j].commit.hash = h
  ELSE 0

ParentsOf(i) == graphNodes[i].commit.parents

\* The parents of row i that have no node in the window, by position.
AbsentParents(i) == { k \in 1..Len(ParentsOf(i)) : RowOf(ParentsOf(i)[k]) = 0 }

\* The lines of row i that are of one of the given kinds.
LinesOfKind(i, kinds) == { k \in 1..Len(branchLines[i]) : branchLines[i][k].kind \in kinds }

\* The lines row i draws to the commit h.
LinesTo(i, h) == { l \in Range(branchLines[i]) : l.to = h }

\* ------------------------------------------------------------------ claims
\* C1. Append monotonicity: when one layout run's commit list is another
\* run's list followed by further (older) commits, with the same branch
\* list, every commit of the shorter list has the same column in both runs.
AppendMonotonicity ==
  \A a, b \in runs :
    (a.branches = b.branches /\ IsPrefix(a.commits, b.commits))
      => \A i \in 1..Len(a.nodes) : b.nodes[i].column = a.nodes[i].column

\* A window that grew by a page after a run that had used two columns.
AppendMonotonicityWitness ==
  \E a, b \in runs :
    /\ a.branches = b.branches
    /\ IsPrefix(a.commits, b.commits)
    /\ Len(a.commits) >= 2 /\ Len(b.commits) > Len(a.commits)
    /\ \E i \in 1..Len(a.nodes) : a.nodes[i].column > 0

\* C2. No lane collision: at no row is a commit assigned the column in which
\* the line from an earlier row to that row's parent, not yet reached, runs.
\* Stated for the lines whose two ends share a column: BranchLine draws those
\* as one vertical line in that column, through every row in between.
NoLaneCollision ==
  \A r \in Rows :
    ~ \E i, j \in Rows :
        /\ i < r /\ r < j
        /\ graphNodes[j].commit.hash \in Range(ParentsOf(i))
        /\ graphNodes[i].column = graphNodes[j].column
        /\ graphNodes[r].column = graphNodes[i].column

\* C3. Idempotence under re-run: a layout run over the commits and branches
\* the previous run was given leaves the nodes and the lines as they were.
IdempotentRerun ==
  [][ (Render /\ memo = [commits |-> commits, branches |-> branches])
        => (graphNodes' = graphNodes /\ branchLines' = branchLines) ]_vars

\* A re-run is due on the input of the previous run, which left a column
\* map and a column counter behind.
IdempotentRerunWitness ==
  /\ stale
  /\ memo = [commits |-> commits, branches |-> branches]
  /\ Len(graphNodes) >= 2
  /\ maxColumn >= 2

ExpectedKind(column, parentColumn) ==
  IF parentColumn = column THEN "straight"
  ELSE IF parentColumn > column THEN "fork" ELSE "merge"

EdgeClassification ==
  \A i \in Rows : \A k \in 1..Len(ParentsOf(i)) :
    LET j == RowOf(ParentsOf(i)[k])
    IN  j # 0 =>
          /\ LinesTo(i, ParentsOf(i)[k]) # {}
          /\ \A l \in LinesTo(i, ParentsOf(i)[k]) :
               l.kind = ExpectedKind(graphNodes[i].column, graphNodes[j].column)

\* A window that shows a straight line, a fork and a merge.
EdgeClassificationWitness ==
  \A kind \in { "straight", "fork", "merge" } :
    \E i \in Rows : LinesOfKind(i, { kind }) # {}

\* C6. Edge color: the line to parents[0] has the node's color; the line to
\* a later parent has that parent's color and reduced weight (opacity).
EdgeColor ==
  \A i \in Rows : \A k \in 1..Len(ParentsOf(i)) :
    LET j == RowOf(ParentsOf(i)[k])
    IN  j # 0 =>
          \A l \in LinesTo(i, ParentsOf(i)[k]) :
            IF k = 1 THEN l.stroke = graphNodes[i].color
            ELSE l.stroke = graphNodes[j].color /\ l.opacity < 100

\* C7. Truncated edge for every absent parent: a node has one truncated
\* line for each of its parents that has no node in the window.
TruncatedForEveryAbsentParent ==
  \A i \in Rows :
    Cardinality(LinesOfKind(i, { "truncated" })) = Cardinality(AbsentParents(i))

RootNoParentEdges ==
  \A i \in Rows :
    ParentsOf(i) = << >>
      => LinesOfKind(i, { "straight", "fork", "merge", "truncated" }) = {}

\* A root commit ends a window of several commits, another one is inside it.
RootNoParentEdgesWitness ==
  /\ Len(graphNodes) >= 3
  /\ ParentsOf(Len(graphNodes)) = << >>
  /\ \E i \in Rows : i < Len(graphNodes) /\ ParentsOf(i) = << >>
  /\ \E i \in Rows : LinesOfKind(i, { "straight", "fork", "merge" }) # {}

\* C10. Merge scenario: in the window M, A, B with M's parents [A, B] and B
\* no parent of A, M and A are in column 0 with a straight line M->A, and B
\* is in another column with a merge line M->B in B's color.
MergeScenario ==
  (/\ Len(graphNodes) = 3
   /\ ParentsOf(1) = << graphNodes[2].commit.hash, graphNodes[3].commit.hash >>
   /\ graphNodes[3].commit.hash \notin Range(ParentsOf(2)))
    => /\ graphNodes[1].column = 0
       /\ graphNodes[2].column = 0
       /\ \E l \in LinesTo(1, graphNodes[2].commit.hash) : l.kind = "straight"
       /\ graphNodes[3].column # 0
       /\ \E l \in LinesTo(1, graphNodes[3].commit.hash) :
            l.kind = "merge" /\ l.stroke = graphNodes[3].color

\* The rows before r that hold a child of the commit of row r.
ChildrenOf(r) ==
  { i \in Rows : i < r /\ graphNodes[r].commit.hash \in Range(ParentsOf(i)) }

\* The columns active at row r: those of the earlier commits with a line
\* still open at r, to a parent further down the window or outside it.
ActiveAt(r) ==
  { graphNodes[i].column :
      i \in { i \in Rows :
                /\ i < r
                /\ \E k \in 1..Len(ParentsOf(i)) :
                     RowOf(ParentsOf(i)[k]) = 0 \/ RowOf(ParentsOf(i)[k]) > r } }

\* C11. Branch tip placement: a commit with no child in the window is in
\* the smallest column that is not active at its row.  Stated so that it
\* does not depend on when a lane is taken to close: the tip's column is not
\* active at its row, and every smaller column is used by an earlier row.
BranchTipPlacement ==
  \A r \in Rows :
    ChildrenOf(r) = {}
      => /\ graphNodes[r].column \notin ActiveAt(r)
         /\ \A c \in 0..(graphNodes[r].column - 1) :
              \E i \in Rows : i < r /\ graphNodes[i].column = c

\* The window is a linear history: each commit but the last has the next
\* commit of the window as its only parent.
IsLinearWindow ==
  \A i \in Rows :
    i < Len(graphNodes) => ParentsOf(i) = << graphNodes[i + 1].commit.hash >>

\* C12. Linear history: in a window where each commit is the sole parent of
\* the one before it, every commit is in column 0 and no line is a fork or
\* a merge.
LinearHistory ==
  IsLinearWindow
    => \A i \in Rows :
         /\ graphNodes[i].column = 0
         /\ LinesOfKind(i, { "fork", "merge" }) = {}

\* C13. Coordinate projection: within a layout y grows strictly with the
\* row and x grows strictly with the column; a row has the y it had in the
\* layout before, and a column the x it had, whatever commit is there now.
CoordinateProjection ==
  [][ /\ \A i, j \in DOMAIN graphNodes' :
           /\ i < j => graphNodes'[i].y < graphNodes'[j].y
           /\ graphNodes'[i].column < graphNodes'[j].column
                => graphNodes'[i].x < graphNodes'[j].x
      /\ \A i \in DOMAIN graphNodes : \A j \in DOMAIN graphNodes' :
           /\ i = j => graphNodes[i].y = graphNodes'[j].y
           /\ graphNodes[i].column = graphNodes'[j].column
                => graphNodes[i].x = graphNodes'[j].x ]_vars

\* A layout of three rows over two columns is about to be replaced by the
\* layout of a different input.
CoordinateProjectionWitness ==
  /\ stale
  /\ memo # [commits |-> commits, branches |-> branches]
  /\ Len(graphNodes) >= 3
  /\ \E i, j \in Rows : graphNodes[i].column < graphNodes[j].column
  /\ \E i, j \in Rows : i # j /\ graphNodes[i].column = graphNodes[j].column

\* The labels of the commits in the window.
DistinctLabels == { BranchLabel(graphNodes[i]) : i \in Rows } \ { << >> }

\* The first row that carries the label.
FirstRow(label) ==
  CHOOSE i \in Rows :
    /\ BranchLabel(graphNodes[i]) = label
    /\ \A j \in Rows : BranchLabel(graphNodes[j]) = label => i <= j

\* The labels that are among the first LegendCap distinct labels of the window.
FirstLabels ==
  { lab \in DistinctLabels :
      Cardinality({ o \in DistinctLabels : FirstRow(o) < FirstRow(lab) }) < LegendCap }

\* The entries are labels of the window, each once, in the order of their
\* first rows, and no label left out comes before one that is in.
IsFirstSeenPrefix(entries) ==
  /\ \A k \in DOMAIN entries : entries[k].label \in DistinctLabels
  /\ \A k, l \in DOMAIN entries :
       k < l => FirstRow(entries[k].label) < FirstRow(entries[l].label)
  /\ \A lab \in DistinctLabels \ LabelsOf(entries) :
       \A k \in DOMAIN entries : FirstRow(entries[k].label) < FirstRow(lab)

PaginationNeverConcurrent ==
  /\ Cardinality(Awaited("more")) <= 1
  /\ \A req \in Awaited("more") : CopiesIn(req, pending) <= 1

\* C17. Pagination appends: a loadMoreCommits that proceeds asks getLog for
\* at most MAX_COMMITS_PER_LOAD commits after the number loaded; when it
\* succeeds the loaded commits stay as they were, in place and in order,
\* and the page getLog answered with is put behind them.
PaginationAppends ==
  [][ /\ (LoadMoreCall /\ pending' # pending)
           => \E req \in Awaited("more")' :
                /\ pending' = Send(req)
                /\ req.skip = Len(commits)
                /\ req.maxCount = MAX_COMMITS_PER_LOAD
      /\ LoadMoreSucceeds
           => commits' = commits \o GetLog(log, MAX_COMMITS_PER_LOAD, Len(commits)) ]_vars

\* C18. loadMoreCommits guard: a call made while hasMore is false or
\* isLoading is true sends no request and changes no field of the store.
LoadMoreGuardSkips ==
  [][ (LoadMoreCall /\ (~hasMore \/ isLoading))
        => /\ pending' = pending
           /\ UNCHANGED << commits, selectedCommit, isLoading, hasMore, error >> ]_vars

\* A call was skipped and a request is awaited while more could be loaded.
LoadMoreGuardSkipsWitness ==
  /\ lastCall = "skipped"
  /\ isLoading /\ hasMore
  /\ pending # EmptyBag
  /\ commits # << >>

\* C19. hasMore rule: a successful fetchCommits or loadMoreCommits sets
\* hasMore to whether the page it got holds MAX_COMMITS_PER_LOAD commits;
\* after a shorter page no loadMoreCommits request is sent until the list
\* is fetched again or reset.
HasMoreRule ==
  [][ /\ FetchSucceeds => hasMore' = (Len(commits') >= MAX_COMMITS_PER_LOAD)
      /\ LoadMoreSucceeds
           => \E req \in Awaited("more") :
                /\ pending' = Receive(req)
                /\ hasMore' = (Len(commits') - Len(req.commits) >= MAX_COMMITS_PER_LOAD)
      /\ (LoadMoreCall /\ pending' # pending) => ~shortPage ]_vars

\* C20. Failure handling: when getLog fails, fetchCommits and
\* loadMoreCommits set error to the message and isLoading to false, and
\* leave commits, hasMore and selectedCommit as they are.
FailureHandling ==
  [][ (FetchFails \/ LoadMoreFails)
        => /\ error' = "failed"
           /\ isLoading' = FALSE
           /\ UNCHANGED << commits, hasMore, selectedCommit >> ]_vars

\* A request has failed in a store that holds commits, one of them selected.
FailureHandlingWitness ==
  /\ error = "failed"
  /\ ~isLoading
  /\ Len(commits) >= 2
  /\ selectedCommit # << >>
  /\ hasMore

\* C21: a successful searchCommits replaces commits with the results of the
\* search and sets hasMore to false, and from then on no pagination request
\* is issued until the next fetchCommits or reset.
SearchSubstitution ==
  [][ /\ SearchSucceeds =>
           /\ \E req \in Awaited("search") :
                pending' = Receive(req) /\ commits' = req.data
           /\ hasMore' = FALSE
      /\ (LoadMoreCall /\ pending' # pending) => ~searchShown ]_vars

\* C22: a render, with its layout run and its edge derivation, leaves the
\* commit list, every commit's hash, parents and refs, and the branch list as
\* they were; the nodes carry the commits of the list, unchanged.
InputReadOnly ==
  [][ Render =>
        /\ commits' = commits
        /\ branches' = branches
        /\ Len(graphNodes') = Len(commits)
        /\ \A i \in 1..Len(commits) : graphNodes'[i].commit = commits[i] ]_vars

InputReadOnlyWitness ==
  /\ ~stale
  /\ Len(graphNodes) >= 2
  /\ memo.commits = commits
  /\ branches # << >>
  /\ \E i \in 1..Len(branchLines) : branchLines[i] # << >>

\* The rows before r whose commit has the commit of row r as first parent.
PrimaryChildrenOf(r) ==
  { i \in ChildrenOf(r) : ParentsOf(i)[1] = graphNodes[r].commit.hash }

\* C23: a commit with at least one child among the earlier rows is in the
\* smallest of its children's columns.  Read on the commits that are the
\* first parent of each of their children, where no column reserved by a
\* merge comes into it.
ConvergenceRule ==
  \A r \in Rows :
    (ChildrenOf(r) # {} /\ PrimaryChildrenOf(r) = ChildrenOf(r))
      => /\ \E i \in ChildrenOf(r) : graphNodes[i].column = graphNodes[r].column
         /\ \A i \in ChildrenOf(r) : graphNodes[r].column <= graphNodes[i].column

\* The columns taken when the k-th parent of the merge of row i gets its
\* column: the merge's own, those active at its row, and those of its
\* parents between the first and the k-th.
TakenAt(i, k) ==
  { graphNodes[i].column } \cup ActiveAt(i)
    \cup { graphNodes[RowOf(ParentsOf(i)[j])].column :
             j \in { j \in 2..(k - 1) : RowOf(ParentsOf(i)[j]) > i } }

\* C24: a parent of a merge other than its first, with no column before the
\* merge is visited (the merge is its only child in the window), is placed in
\* the column reserved for it: the first one, walking forward from the
\* merge's column, that is not taken at the merge's row.
MergePreReservation ==
  \A i \in Rows :
    \A k \in 2..Len(ParentsOf(i)) :
      LET r == RowOf(ParentsOf(i)[k])
      IN  (r > i /\ ChildrenOf(r) = { i }
             /\ \A j \in 1..(k - 1) : ParentsOf(i)[j] # ParentsOf(i)[k])
            => /\ graphNodes[r].column > graphNodes[i].column
               /\ graphNodes[r].column \notin TakenAt(i, k)
               /\ \A c \in (graphNodes[i].column + 1)..(graphNodes[r].column - 1) :
                    c \in TakenAt(i, k)

\* C25: a node's color is the palette entry at its column modulo the size of
\* the palette: nodes of one column have one color, and so have nodes whose
\* columns differ by a multiple of the size of the palette.
PaletteCycling ==
  /\ \A i \in Rows :
       graphNodes[i].color =
         BRANCH_COLORS[(graphNodes[i].column % Len(BRANCH_COLORS)) + 1]
  /\ \A i, j \in Rows :
       (graphNodes[i].column - graphNodes[j].column) % Len(BRANCH_COLORS) = 0
         => graphNodes[i].color = graphNodes[j].color

PaletteCyclingWitness ==
  \E i, j \in Rows :
    /\ graphNodes[j].column = graphNodes[i].column + Len(BRANCH_COLORS)
    /\ graphNodes[j].color = graphNodes[i].color

\* C26: whenever loadMoreCommits completes successfully, the list the store
\* held just before is a prefix of the list it holds just after, also when
\* a fetchCommits or searchCommits completed while the request was awaited.
NoStaleOverwrite ==
  [][ LoadMoreSucceeds => IsPrefix(commits, commits') ]_vars

\* C27: isLoading is true whenever a fetch, load-more or search request is
\* awaited, and false once every request issued has been answered.
LoadingTracksRequests ==
  /\ pending # EmptyBag => isLoading
  /\ pending = EmptyBag => ~isLoading

\* The refs of the commit of row i that match a branch the layout was run
\* with: the ref is the branch's name or contains it.
BranchRefsOf(i) ==
  LET refs == graphNodes[i].commit.refs
  IN  { k \in 1..Len(refs) :
          \E b \in 1..Len(memo.branches) :
            refs[k] = memo.branches[b] \/ Includes(refs[k], memo.branches[b]) }

FirstBranchRef(i) ==
  IF BranchRefsOf(i) = {} THEN << >>
  ELSE graphNodes[i].commit.refs[CHOOSE k \in BranchRefsOf(i) :
                                   \A j \in BranchRefsOf(i) : k <= j]

\* The distinct refs taken for the rows 1..i.
SeenRefs(i) == { FirstBranchRef(j) : j \in 1..i } \ { << >> }

\* C29: the columns of branch refs are given out in the order the refs are
\* first seen, 0, 1, 2, ... without gaps; two commits with the same first
\* matching ref are in the same column; and after k distinct such refs every
\* column so far is one of 0..k-1 (0 when k = 0).
BranchRefColumns ==
  \A i \in Rows :
    LET k == Cardinality(SeenRefs(i))
    IN  /\ graphNodes[i].column \in 0..(IF k = 0 THEN 0 ELSE k - 1)
        /\ (FirstBranchRef(i) # << >> /\ FirstBranchRef(i) \notin SeenRefs(i - 1))
             => graphNodes[i].column = Cardinality(SeenRefs(i - 1))
        /\ \A j \in Rows :
             (FirstBranchRef(i) # << >> /\ FirstBranchRef(j) = FirstBranchRef(i))
               => graphNodes[j].column = graphNodes[i].column

BranchRefColumnsWitness ==
  \E i, j \in Rows :
    /\ i < j
    /\ FirstBranchRef(i) # << >>
    /\ FirstBranchRef(j) = FirstBranchRef(i)
    /\ graphNodes[i].column = 1
    /\ graphNodes[j].column = 1

\* C30: a burst of file-change events, each less than the debounce delay
\* after the one before, gives exactly one onChange callback, and that after
\* the last event of the burst: a callback runs only when the delay has
\* passed since the latest event and none has run since that event, and
\* after the latest event a callback does run unless the watcher is closed.
\* After close() no callback runs for the events received before it.
WatcherDebounce ==
  /\ [][ TimerFires =>
           /\ ~closed
           /\ callbacks = 0
           /\ now - lastChange >= DEBOUNCE_FILE_WATCH ]_vars
  /\ [][ closed => callbacks' = callbacks ]_vars
  /\ (lastChange >= 0 /\ ~closed) ~> (callbacks = 1 \/ closed)

WatcherDebounceWitness ==
  /\ burst
  /\ callbacks = 1
  /\ ~closed

====
